---- MODULE Spec2Model ----
(***************************************************************************)
(* Model of eth_hentai/txmonitor.py: the transaction confirmation monitor  *)
(* wait_transactions_to_complete and its wrapper                           *)
(* broadcast_and_wait_transactions_to_complete.                            *)
(*                                                                         *)
(* The web3 node (the chain state port) is the environment: every call to  *)
(* it answers nondeterministically.  The wall clock is the environment     *)
(* too: it advances while a round of queries runs, and by every sleep.     *)
(*                                                                         *)
(* A Python dict is insertion ordered: it is modelled as a sequence of     *)
(* [tx_hash, receipt] entries.                                             *)
(***************************************************************************)
EXTENDS Integers, Sequences, FiniteSets, TLC

\* ---- bounds of the model ----
MaxLen == 2             \* longest input list
MaxBlock == 1           \* receipts report blockNumber in 0..MaxBlock
MaxConfirmations == 1   \* confirmation_block_count in 0..MaxConfirmations
MaxTimeout == 1         \* max_timeout in 0..MaxTimeout (clock units)
MaxRoundsTimeout == 3   \* max_timeout in 0..MaxRoundsTimeout where rounds are counted

\* web3.eth.block_number answers 0..MaxHead: behind and ahead of the receipts
MaxHead == MaxBlock + 1
\* the clock advances on its own up to MaxClock: one unit past the latest deadline
MaxClock == MaxTimeout + 1

\* ---- program constants ----
EthereumTesterChainId == 61
OtherChainId == EthereumTesterChainId + 1    \* any chain but Ethereum Tester
PollDelay == 1          \* poll_delay default: one clock unit (1 second)
StatusSuccess == 1
StatusFailure == 1 - StatusSuccess

\* Transaction hashes are opaque to the program: it only compares them.  Two
\* hashes show every case of equal and of different hashes; the input lists grow
\* with MaxLen.
TxHashes == {"h1", "h2"}
NoTx == "none"
\* the signed transactions these hashes belong to, and an element of txs that is
\* no SignedTransaction
SignedTxs == {"s1", "s2"}
NotSigned == "not_signed"
ChainIds == {OtherChainId, EthereumTesterChainId}

RECURSIVE SeqsUpTo(_, _)
SeqsUpTo(S, n) ==
    IF n = 0 THEN {<<>>}
    ELSE LET shorter == SeqsUpTo(S, n - 1)
         IN shorter \cup {Append(s, x) : s \in {t \in shorter : Len(t) = n - 1}, x \in S}

\* ---- the chain state port's answers ----
Receipts == [blockNumber : 0..MaxBlock, status : {StatusFailure, StatusSuccess}]
NoReceipt == [blockNumber |-> 0, status |-> StatusFailure]

\* web3.eth.get_transaction_receipt: a receipt, None, raise TransactionNotFound,
\* or any other failure of the node
ReceiptReplies ==
    [kind : {"receipt"}, receipt : Receipts]
    \cup [kind : {"None", "TransactionNotFound", "error"}, receipt : {NoReceipt}]

\* web3.eth.block_number: a height, or a failure of the node (height -1)
Heads == 0..MaxHead
HeadError == 0 - 1
NoHead == 0 - 2

\* ---- dict operations ----
Keys(d) == {d[i].tx_hash : i \in DOMAIN d}

Lookup(d, k) == LET i == CHOOSE j \in DOMAIN d : d[j].tx_hash = k IN d[i].receipt

\* variant of DictSet: the assignment rebinds the dict to the one new entry
DictSet_Rebinds(d, k, v) == <<[tx_hash |-> k, receipt |-> v]>>

\* d[k] = v : replaces the value in place when the key exists, appends otherwise
DictSet(d, k, v) ==
    IF k \in Keys(d)
    THEN [i \in DOMAIN d |-> IF d[i].tx_hash = k THEN [tx_hash |-> k, receipt |-> v] ELSE d[i]]
    ELSE Append(d, [tx_hash |-> k, receipt |-> v])

VARIABLES
    mode,                       \* entry point called: "wait" or "broadcast"
    signed,                     \* broadcast: the input list txs of signed transactions
    hashes,                     \* broadcast: the local list hashes
    txs,                        \* wait: the input list txs of transaction hashes
    confirm_ok,
    confirmation_block_count,
    max_timeout,
    chain_id,                   \* what web3.eth.chain_id answers
    now,                        \* datetime.datetime.utcnow()
    started_at,
    receipts_received,
    unconfirmed_txs,
    confirmation_received,
    to_visit,                   \* elements the running for loop has not visited yet
    pc,                         \* position of the program
    outcome,                    \* how wait_transactions_to_complete ended
    result,                     \* the map wait_transactions_to_complete returned
    timed_out,                  \* the set the ConfirmationTimedOut message carries
    bc_outcome,                 \* how broadcast_and_wait_transactions_to_complete ended
    bc_result,                  \* the map it returned
    failed_tx,                  \* the transaction the RuntimeError names
    \* history of the calls made to the port
    last,                       \* the port call made by the latest step
    submitted,                  \* signed transactions handed to send_raw_transaction
    queried,                    \* hashes handed to get_transaction_receipt so far
    seen,                       \* hashes the port has answered a receipt for so far
    rounds,                     \* number of passes of the while loop started
    sleeps                      \* number of time.sleep calls

vars == <<mode, signed, hashes, txs, confirm_ok, confirmation_block_count, max_timeout,
          chain_id, now, started_at, receipts_received, unconfirmed_txs,
          confirmation_received, to_visit, pc, outcome, result, timed_out,
          bc_outcome, bc_result, failed_tx, last, submitted,
          queried, seen, rounds, sleeps>>

params == <<mode, signed, confirm_ok, confirmation_block_count, max_timeout, chain_id>>

NoCall == [op |-> "none", tx |-> NoTx, kind |-> "none", receipt |-> NoReceipt, head |-> NoHead]

PortCall(op, tx, kind, receipt, head) ==
    [op |-> op, tx |-> tx, kind |-> kind, receipt |-> receipt, head |-> head]

\* the state at the call, max_timeout drawn from timeouts
InitWith(timeouts) ==
    /\ mode \in {"wait", "broadcast"}
    /\ IF mode = "wait"
       THEN /\ txs \in SeqsUpTo(TxHashes, MaxLen)
            /\ signed = <<>>
            /\ confirm_ok = FALSE
            /\ pc = "chain_id"
       ELSE /\ txs = <<>>
            /\ signed \in SeqsUpTo(SignedTxs \cup {NotSigned}, MaxLen)
            /\ confirm_ok \in BOOLEAN
            /\ pc = "broadcast"
    /\ hashes = <<>>
    /\ confirmation_block_count \in 0..MaxConfirmations
    /\ max_timeout \in timeouts
    /\ chain_id \in ChainIds
    /\ now = 0
    /\ started_at = 0
    /\ receipts_received = <<>>
    /\ unconfirmed_txs = {}
    /\ confirmation_received = {}
    /\ to_visit = {}
    /\ outcome = "none"
    /\ result = <<>>
    /\ timed_out = {}
    /\ bc_outcome = "none"
    /\ bc_result = <<>>
    /\ failed_tx = NoTx
    /\ last = NoCall
    /\ submitted = <<>>
    /\ queried = {}
    /\ seen = {}
    /\ rounds = 0
    /\ sleeps = 0

Init == InitWith(0..MaxTimeout)

\* a call of wait_transactions_to_complete on its own
InitMonitor == Init /\ mode = "wait"

\* a call of wait_transactions_to_complete with room for several rounds
InitRounds == InitWith(0..MaxRoundsTimeout) /\ mode = "wait"

\* ---- helpers of wait_transactions_to_complete ----

\* unconfirmed_txs = {HexBytes(tx) for tx in txs}
InitialWatchSet(list) == {list[i] : i \in DOMAIN list}

\* variant of ChainGuardOk: the chain id is not looked at
ChainGuardOk_AnyChain(id, count) == TRUE

\* the chain guard: Ethereum Tester does not progress by itself
ChainGuardOk(id, count) == id = EthereumTesterChainId => count = 0

\* variant of TryGetReceipt: no except clause, TransactionNotFound leaves the function
TryGetReceipt_NoCatch(reply) ==
    CASE reply.kind = "receipt" -> [raised |-> FALSE, found |-> TRUE]
      [] reply.kind = "None" -> [raised |-> FALSE, found |-> FALSE]
      [] OTHER -> [raised |-> TRUE, found |-> FALSE]

\* variant of TryGetReceipt: a bare except, every failure counts as "not found"
TryGetReceipt_CatchAll(reply) ==
    CASE reply.kind = "receipt" -> [raised |-> FALSE, found |-> TRUE]
      [] OTHER -> [raised |-> FALSE, found |-> FALSE]

\* try: receipt = get_transaction_receipt(tx_hash)
\* except TransactionNotFound: receipt = None
\* any other exception leaves the try block and the function
TryGetReceipt(reply) ==
    CASE reply.kind = "receipt" -> [raised |-> FALSE, found |-> TRUE]
      [] reply.kind = "None" -> [raised |-> FALSE, found |-> FALSE]
      [] reply.kind = "TransactionNotFound" -> [raised |-> FALSE, found |-> FALSE]
      [] OTHER -> [raised |-> TRUE, found |-> FALSE]

\* tx_confirmations = web3.eth.block_number - receipt.blockNumber
TxConfirmations(head, receipt) == head - receipt.blockNumber

\* variant of EnoughConfirmations: any receipt is deep enough
EnoughConfirmations_Always(head, receipt, count) == TRUE

\* variant of EnoughConfirmations: compares the head itself, not the depth
EnoughConfirmations_HeadOnly(head, receipt, count) == head >= count

\* if tx_confirmations >= confirmation_block_count
EnoughConfirmations(head, receipt, count) == TxConfirmations(head, receipt) >= count

\* variant of AfterVisit: the loop does not move on, the hash stays to visit
AfterVisit_Stays(remaining, tx_hash) == remaining

\* for tx_hash in unconfirmed_txs: the loop moves on to the hashes not visited yet
AfterVisit(remaining, tx_hash) == remaining \ {tx_hash}

\* variant of LoopCondition: the loop ends with one hash still in the set
LoopCondition_LeavesOne(unconfirmed) == Cardinality(unconfirmed) > 1

\* variant of LoopCondition: the body runs for an empty set too
LoopCondition_Always(unconfirmed) == Cardinality(unconfirmed) >= 0

\* while len(unconfirmed_txs) > 0
LoopCondition(unconfirmed) == Cardinality(unconfirmed) > 0

\* variant of RemoveConfirmed: the set is intersected, not subtracted
RemoveConfirmed_Inverted(unconfirmed, received) == unconfirmed \cap received

\* variant of RemoveConfirmed: the set is left as it was
RemoveConfirmed_Keeps(unconfirmed, received) == unconfirmed

\* variant of RemoveConfirmed: the set is emptied
RemoveConfirmed_All(unconfirmed, received) == {}

\* unconfirmed_txs -= confirmation_received
RemoveConfirmed(unconfirmed, received) == unconfirmed \ received

\* variant of MustWait: no sleep and no look at the clock between rounds
MustWait_Never(unconfirmed) == FALSE

\* variant of MustWait: sleeps and looks at the clock after every round
MustWait_Always(unconfirmed) == TRUE

\* if unconfirmed_txs: sleep, then look at the clock
MustWait(unconfirmed) == unconfirmed # {}

\* variant of DeadlinePassed: the deadline is never looked at
DeadlinePassed_Never(clock, start, timeout) == FALSE

\* datetime.datetime.utcnow() > started_at + max_timeout
DeadlinePassed(clock, start, timeout) == clock > start + timeout

\* an exception leaves wait_transactions_to_complete, and its caller too
Raise(err) ==
    /\ outcome' = err
    /\ bc_outcome' = IF mode = "broadcast" THEN err ELSE bc_outcome
    /\ pc' = "done"

\* ---- the environment: the wall clock ----
\* The program reads the clock at started_at and after each sleep.  Time passes
\* while a round talks to the port; time.sleep adds poll_delay.  Time that passes
\* elsewhere between two readings shows in the same reading.
Tick ==
    /\ pc = "for"
    /\ now < MaxClock
    /\ now' = now + 1
    /\ UNCHANGED <<params, hashes, txs, started_at, receipts_received, unconfirmed_txs,
                   confirmation_received, to_visit, pc, outcome, result, timed_out,
                   bc_outcome, bc_result, failed_tx, last, submitted,
                   queried, seen, rounds, sleeps>>

\* ---- wait_transactions_to_complete ----

\* web3.eth.chain_id fails
ChainIdFails ==
    /\ pc = "chain_id"
    /\ Raise("PortUnavailable")
    /\ last' = PortCall("chain_id", NoTx, "error", NoReceipt, NoHead)
    /\ UNCHANGED <<params, hashes, txs, now, started_at, receipts_received,
                   unconfirmed_txs, confirmation_received, to_visit, result, timed_out,
                   bc_result, failed_tx, submitted, queried, seen, rounds,
                   sleeps>>

\* the chain guard rejects the call
ChainGuardFails ==
    /\ pc = "chain_id"
    /\ ~ChainGuardOk(chain_id, confirmation_block_count)
    /\ Raise("AssertionError")
    /\ last' = PortCall("chain_id", NoTx, "ok", NoReceipt, NoHead)
    /\ UNCHANGED <<params, hashes, txs, now, started_at, receipts_received,
                   unconfirmed_txs, confirmation_received, to_visit, result, timed_out,
                   bc_result, failed_tx, submitted, queried, seen, rounds,
                   sleeps>>

\* the chain guard passes: started_at, receipts_received, unconfirmed_txs
Begin ==
    /\ pc = "chain_id"
    /\ ChainGuardOk(chain_id, confirmation_block_count)
    /\ started_at' = now
    /\ receipts_received' = <<>>
    /\ unconfirmed_txs' = InitialWatchSet(txs)
    /\ pc' = "while"
    /\ last' = PortCall("chain_id", NoTx, "ok", NoReceipt, NoHead)
    /\ UNCHANGED <<params, hashes, txs, now, confirmation_received, to_visit, outcome,
                   result, timed_out, bc_outcome, bc_result, failed_tx, submitted, queried, seen, rounds, sleeps>>

\* while len(unconfirmed_txs) > 0: a new round
RoundStart ==
    /\ pc = "while"
    /\ LoopCondition(unconfirmed_txs)
    /\ confirmation_received' = {}
    /\ to_visit' = unconfirmed_txs
    /\ rounds' = rounds + 1
    /\ pc' = "for"
    /\ last' = NoCall
    /\ UNCHANGED <<params, hashes, txs, now, started_at, receipts_received,
                   unconfirmed_txs, outcome, result, timed_out, bc_outcome, bc_result,
                   failed_tx, submitted, queried, seen, sleeps>>

\* the while condition is false: return receipts_received
Return ==
    /\ pc = "while"
    /\ ~LoopCondition(unconfirmed_txs)
    /\ outcome' = "returned"
    /\ result' = receipts_received
    /\ pc' = IF mode = "broadcast" THEN "confirm_ok" ELSE "done"
    /\ last' = NoCall
    /\ UNCHANGED <<params, hashes, txs, now, started_at, receipts_received,
                   unconfirmed_txs, confirmation_received, to_visit, timed_out,
                   bc_outcome, bc_result, failed_tx, submitted,
                   queried, seen, rounds, sleeps>>

\* one pass of the for loop over unconfirmed_txs, with the port's answers
Poll(tx_hash, reply, head) ==
    /\ pc = "for"
    /\ tx_hash \in to_visit
    /\ queried' = queried \cup {tx_hash}
    /\ seen' = IF reply.kind = "receipt" THEN seen \cup {tx_hash} ELSE seen
    /\ LET got == TryGetReceipt(reply) IN
       IF got.raised
       THEN /\ head = NoHead
            /\ Raise("PortUnavailable")
            /\ last' = PortCall("get_transaction_receipt", tx_hash, reply.kind, reply.receipt, NoHead)
            /\ UNCHANGED <<receipts_received, confirmation_received, to_visit>>
       ELSE IF ~got.found
       THEN /\ head = NoHead
            /\ to_visit' = AfterVisit(to_visit, tx_hash)
            /\ last' = PortCall("get_transaction_receipt", tx_hash, reply.kind, reply.receipt, NoHead)
            /\ UNCHANGED <<receipts_received, confirmation_received, pc, outcome, bc_outcome>>
       ELSE IF head = HeadError
       THEN /\ Raise("PortUnavailable")
            /\ last' = PortCall("get_transaction_receipt", tx_hash, reply.kind, reply.receipt, head)
            /\ UNCHANGED <<receipts_received, confirmation_received, to_visit>>
       ELSE /\ head \in Heads
            /\ to_visit' = AfterVisit(to_visit, tx_hash)
            /\ last' = PortCall("get_transaction_receipt", tx_hash, reply.kind, reply.receipt, head)
            /\ IF EnoughConfirmations(head, reply.receipt, confirmation_block_count)
               THEN /\ confirmation_received' = confirmation_received \cup {tx_hash}
                    /\ receipts_received' = DictSet(receipts_received, tx_hash, reply.receipt)
               ELSE UNCHANGED <<receipts_received, confirmation_received>>
            /\ UNCHANGED <<pc, outcome, bc_outcome>>
    /\ UNCHANGED <<params, hashes, txs, now, started_at, unconfirmed_txs, result,
                   timed_out, bc_result, failed_tx, submitted, rounds, sleeps>>

\* the port has no receipt: None, or TransactionNotFound
PollNotFound ==
    \E tx_hash \in to_visit, reply \in ReceiptReplies :
        /\ reply.kind \in {"None", "TransactionNotFound"}
        /\ Poll(tx_hash, reply, NoHead)

\* get_transaction_receipt fails otherwise
PollReceiptFails ==
    \E tx_hash \in to_visit, reply \in ReceiptReplies :
        /\ reply.kind = "error"
        /\ Poll(tx_hash, reply, NoHead)

\* a receipt, and web3.eth.block_number fails
PollHeadFails ==
    \E tx_hash \in to_visit, reply \in ReceiptReplies :
        /\ reply.kind = "receipt"
        /\ Poll(tx_hash, reply, HeadError)

\* a receipt, and the chain head
PollReceipt ==
    \E tx_hash \in to_visit, reply \in ReceiptReplies, head \in Heads :
        /\ reply.kind = "receipt"
        /\ Poll(tx_hash, reply, head)

\* the for loop is over: remove the confirmed, then sleep or go back to the while
EndRound ==
    /\ pc = "for"
    /\ to_visit = {}
    /\ unconfirmed_txs' = RemoveConfirmed(unconfirmed_txs, confirmation_received)
    /\ pc' = IF MustWait(unconfirmed_txs') THEN "sleep" ELSE "while"
    /\ last' = NoCall
    /\ UNCHANGED <<params, hashes, txs, now, started_at, receipts_received,
                   confirmation_received, to_visit, outcome, result, timed_out,
                   bc_outcome, bc_result, failed_tx, submitted,
                   queried, seen, rounds, sleeps>>

\* time.sleep(poll_delay.total_seconds())
Sleep ==
    /\ pc = "sleep"
    /\ now' = now + PollDelay
    /\ sleeps' = sleeps + 1
    /\ pc' = "timeout_check"
    /\ last' = NoCall
    /\ UNCHANGED <<params, hashes, txs, started_at, receipts_received, unconfirmed_txs,
                   confirmation_received, to_visit, outcome, result, timed_out,
                   bc_outcome, bc_result, failed_tx, submitted,
                   queried, seen, rounds>>

\* the deadline test after the sleep
TimeoutCheck ==
    /\ pc = "timeout_check"
    /\ IF DeadlinePassed(now, started_at, max_timeout)
       THEN /\ pc' = "diag"
            /\ to_visit' = unconfirmed_txs
       ELSE /\ pc' = "while"
            /\ UNCHANGED to_visit
    /\ last' = NoCall
    /\ UNCHANGED <<params, hashes, txs, now, started_at, receipts_received,
                   unconfirmed_txs, confirmation_received, outcome, result, timed_out,
                   bc_outcome, bc_result, failed_tx, submitted,
                   queried, seen, rounds, sleeps>>

\* timeout path: tx_data = web3.eth.get_transaction(tx_hash) answers
DiagFetch ==
    /\ pc = "diag"
    /\ \E tx_hash \in to_visit :
        /\ to_visit' = to_visit \ {tx_hash}
        /\ last' = PortCall("get_transaction", tx_hash, "ok", NoReceipt, NoHead)
    /\ UNCHANGED <<params, hashes, txs, now, started_at, receipts_received,
                   unconfirmed_txs, confirmation_received, pc, outcome, result,
                   timed_out, bc_outcome, bc_result, failed_tx, submitted,
                   queried, seen, rounds, sleeps>>

\* timeout path: web3.eth.get_transaction(tx_hash) raises; nothing catches it
DiagFetchFails ==
    /\ pc = "diag"
    /\ \E tx_hash \in to_visit :
        /\ last' = PortCall("get_transaction", tx_hash, "error", NoReceipt, NoHead)
    /\ Raise("DiagnosticError")
    /\ UNCHANGED <<params, hashes, txs, now, started_at, receipts_received,
                   unconfirmed_txs, confirmation_received, to_visit, result, timed_out,
                   bc_result, failed_tx, submitted, queried, seen, rounds,
                   sleeps>>

\* raise ConfirmationTimedOut(... Still unconfirmed: {unconfirmed_txs})
RaiseTimedOut ==
    /\ pc = "diag"
    /\ to_visit = {}
    /\ timed_out' = unconfirmed_txs
    /\ Raise("ConfirmationTimedOut")
    /\ last' = NoCall
    /\ UNCHANGED <<params, hashes, txs, now, started_at, receipts_received,
                   unconfirmed_txs, confirmation_received, to_visit, result, bc_result,
                   failed_tx, submitted, queried, seen, rounds, sleeps>>

\* ---- broadcast_and_wait_transactions_to_complete ----

\* assert isinstance(tx, SignedTransaction)
IsSignedTransaction(tx) == tx # NotSigned

\* variant of MustCheckStatus: the flag is ignored, the receipts are always checked
MustCheckStatus_Always(flag) == TRUE

\* if confirm_ok
MustCheckStatus(flag) == flag

\* variant of ReceiptFailed: the status is never looked at
ReceiptFailed_Never(receipt) == FALSE

\* if receipt.status != 1
ReceiptFailed(receipt) == receipt.status # StatusSuccess

\* for tx_hash, receipt in receipts.items(): the entries that raise
FailedEntries(receipts) == {i \in DOMAIN receipts : ReceiptFailed(receipts[i].receipt)}

\* the first of them in the order of the dict
FirstFailed(receipts) ==
    CHOOSE i \in FailedEntries(receipts) : \A j \in FailedEntries(receipts) : i <= j

\* web3.eth.send_raw_transaction answers the hash of the raw transaction: a
\* function of its bytes, different for different transactions
TxHashOf(tx) == IF tx = "s1" THEN "h1" ELSE "h2"

\* variant of NextToSend: the loop walks txs from its end
NextToSend_Reversed ==
    IF Len(hashes) < Len(signed) THEN Len(signed) - Len(hashes) ELSE Len(signed) + 1

\* the element of txs the broadcast loop handles next
NextToSend == Len(hashes) + 1

\* the element is no SignedTransaction: the assert fails
SubmitNotSigned ==
    /\ pc = "broadcast"
    /\ NextToSend <= Len(signed)
    /\ ~IsSignedTransaction(signed[NextToSend])
    /\ bc_outcome' = "AssertionError"
    /\ pc' = "done"
    /\ last' = NoCall
    /\ UNCHANGED <<params, hashes, txs, now, started_at, receipts_received,
                   unconfirmed_txs, confirmation_received, to_visit, outcome, result,
                   timed_out, bc_result, failed_tx, submitted,
                   queried, seen, rounds, sleeps>>

\* hash = web3.eth.send_raw_transaction(tx.rawTransaction); hashes.append(hash)
Submit ==
    /\ pc = "broadcast"
    /\ NextToSend <= Len(signed)
    /\ IsSignedTransaction(signed[NextToSend])
    /\ LET hash == TxHashOf(signed[NextToSend]) IN
        /\ hashes' = Append(hashes, hash)
        /\ last' = PortCall("send_raw_transaction", hash, "ok", NoReceipt, NoHead)
    /\ submitted' = Append(submitted, signed[NextToSend])
    /\ UNCHANGED <<params, txs, now, started_at, receipts_received, unconfirmed_txs,
                   confirmation_received, to_visit, pc, outcome, result, timed_out,
                   bc_outcome, bc_result, failed_tx, queried, seen, rounds,
                   sleeps>>

\* send_raw_transaction raises: the error leaves the function
SubmitFails ==
    /\ pc = "broadcast"
    /\ NextToSend <= Len(signed)
    /\ IsSignedTransaction(signed[NextToSend])
    /\ submitted' = Append(submitted, signed[NextToSend])
    /\ bc_outcome' = "SubmissionFailed"
    /\ pc' = "done"
    /\ last' = PortCall("send_raw_transaction", NoTx, "error", NoReceipt, NoHead)
    /\ UNCHANGED <<params, hashes, txs, now, started_at, receipts_received,
                   unconfirmed_txs, confirmation_received, to_visit, outcome, result,
                   timed_out, bc_result, failed_tx, queried, seen, rounds,
                   sleeps>>

\* receipts = wait_transactions_to_complete(web3, hashes, ...)
CallMonitor ==
    /\ pc = "broadcast"
    /\ NextToSend > Len(signed)
    /\ txs' = hashes
    /\ pc' = "chain_id"
    /\ last' = NoCall
    /\ UNCHANGED <<params, hashes, now, started_at, receipts_received, unconfirmed_txs,
                   confirmation_received, to_visit, outcome, result, timed_out,
                   bc_outcome, bc_result, failed_tx, submitted,
                   queried, seen, rounds, sleeps>>

\* if confirm_ok: a receipt with status != 1 raises RuntimeError
StatusCheckFails ==
    /\ pc = "confirm_ok"
    /\ MustCheckStatus(confirm_ok)
    /\ FailedEntries(result) # {}
    /\ failed_tx' = result[FirstFailed(result)].tx_hash
    /\ bc_outcome' = "TransactionFailed"
    /\ pc' = "done"
    /\ last' = NoCall
    /\ UNCHANGED <<params, hashes, txs, now, started_at, receipts_received,
                   unconfirmed_txs, confirmation_received, to_visit, outcome, result,
                   timed_out, bc_result, submitted, queried, seen, rounds,
                   sleeps>>

\* return receipts
ReturnReceipts ==
    /\ pc = "confirm_ok"
    /\ ~(MustCheckStatus(confirm_ok) /\ FailedEntries(result) # {})
    /\ bc_outcome' = "returned"
    /\ bc_result' = result
    /\ pc' = "done"
    /\ last' = NoCall
    /\ UNCHANGED <<params, hashes, txs, now, started_at, receipts_received,
                   unconfirmed_txs, confirmation_received, to_visit, outcome, result,
                   timed_out, failed_tx, submitted, queried, seen, rounds,
                   sleeps>>

Next ==
    \/ Tick
    \/ ChainIdFails
    \/ ChainGuardFails
    \/ Begin
    \/ RoundStart
    \/ Return
    \/ PollNotFound
    \/ PollReceiptFails
    \/ PollHeadFails
    \/ PollReceipt
    \/ EndRound
    \/ Sleep
    \/ TimeoutCheck
    \/ DiagFetch
    \/ DiagFetchFails
    \/ RaiseTimedOut
    \/ SubmitNotSigned
    \/ Submit
    \/ SubmitFails
    \/ CallMonitor
    \/ StatusCheckFails
    \/ ReturnReceipts

Spec == Init /\ [][Next]_vars

\* the steps of wait_transactions_to_complete alone
NextMonitor ==
    \/ Tick
    \/ ChainIdFails
    \/ ChainGuardFails
    \/ Begin
    \/ RoundStart
    \/ Return
    \/ PollNotFound
    \/ PollReceiptFails
    \/ PollHeadFails
    \/ PollReceipt
    \/ EndRound
    \/ Sleep
    \/ TimeoutCheck
    \/ DiagFetch
    \/ DiagFetchFails
    \/ RaiseTimedOut

SpecRounds == InitRounds /\ [][NextMonitor]_vars

\* the call runs on: the one thread of the call takes its next step, every port
\* call and every sleep returns
FairSpecMonitor == InitMonitor /\ [][NextMonitor]_vars /\ WF_vars(NextMonitor)

TypeOK ==
    /\ pc \in {"broadcast", "chain_id", "while", "for", "sleep", "timeout_check", "diag",
               "confirm_ok", "done"}
    /\ outcome \in {"none", "returned", "PortUnavailable", "AssertionError",
                    "DiagnosticError", "ConfirmationTimedOut"}
    /\ bc_outcome \in {"none", "returned", "PortUnavailable", "AssertionError",
                       "DiagnosticError", "ConfirmationTimedOut", "SubmissionFailed",
                       "TransactionFailed"}
    /\ unconfirmed_txs \subseteq TxHashes
    /\ confirmation_received \subseteq TxHashes
    /\ to_visit \subseteq unconfirmed_txs
    /\ seen \subseteq queried
    /\ queried \subseteq TxHashes

\* ---- properties ----

\* the latest step asked the port for a receipt of some transaction
ReceiptQueried == last.op = "get_transaction_receipt"

\* this step asks the port for a receipt: every step that is not a call to the
\* port clears last, and no hash is visited twice in a row
ReceiptQueryStep == last' # last /\ last'.op = "get_transaction_receipt"

\* C1: when wait_transactions_to_complete returns, the keys of the returned map are
\* exactly the distinct input hashes (each once), and every key maps to a receipt
\* the port returned for that very hash during the call: the map returned is
\* receipts_received, whose entries are only ever added, each one the hash and the
\* receipt of the port's answer in the step that adds it.
ResultMapIsExact ==
    [][/\ outcome' = "returned" =>
               /\ Keys(result') = {txs'[i] : i \in DOMAIN txs'}
               /\ Len(result') = Cardinality(Keys(result'))
               /\ result' = receipts_received'
       /\ receipts_received' # receipts_received =>
               /\ ReceiptQueryStep
               /\ last'.op = "get_transaction_receipt"
               /\ last'.kind = "receipt"
               /\ last'.tx \notin Keys(receipts_received)
               /\ receipts_received' =
                      Append(receipts_received,
                             [tx_hash |-> last'.tx, receipt |-> last'.receipt])]_vars

\* C1 witness: a call of two hashes returned after more than one round
ResultMapIsExactWitness ==
    /\ outcome = "returned"
    /\ Cardinality(Keys(result)) = 2
    /\ rounds >= 2

DeadlineRaisesTimedOut ==
    [][pc = "diag" =>
         \/ pc' = "diag" /\ outcome' = "none" /\ unconfirmed_txs' = unconfirmed_txs
         \/ outcome' = "ConfirmationTimedOut" /\ timed_out' = unconfirmed_txs]_vars

\* C4 (as claimed): a failing diagnostic fetch on the timeout path does not end the
\* call with the fetch's error: the call goes on to ConfirmationTimedOut.
DiagnosticFailureSwallowed ==
    (last.op = "get_transaction" /\ last.kind = "error") =>
        outcome \in {"none", "ConfirmationTimedOut"}

\* C5 (as claimed): with confirmation_block_count = 0 a hash is promoted by the
\* check in which the port returns a receipt for it, whatever head the port reports.
FirstSightingPromotes ==
    (confirmation_block_count = 0 /\ ReceiptQueried /\ last.kind = "receipt"
        /\ last.head >= 0) =>
        last.tx \in confirmation_received

\* C6: a "not found" answer (None or TransactionNotFound) is no error: the call goes
\* on with the rest of the round, the hash stays unconfirmed and unpromoted, and
\* every new round visits all the hashes still unconfirmed.
NotFoundIsNoError ==
    [][/\ (ReceiptQueryStep
             /\ last'.kind \in {"None", "TransactionNotFound"}) =>
               /\ outcome' = "none"
               /\ bc_outcome' = "none"
               /\ pc' = "for"
               /\ last'.tx \in unconfirmed_txs'
               /\ last'.tx \notin confirmation_received'
               /\ to_visit' = to_visit \ {last'.tx}
               /\ UNCHANGED <<receipts_received, confirmation_received>>
       /\ rounds' # rounds => to_visit' = unconfirmed_txs']_vars

\* C6 witness: a hash not found in an earlier round is not found again, and another
\* hash of the round is still to visit
NotFoundWitness ==
    /\ rounds = 2
    /\ ReceiptQueried
    /\ last.kind = "TransactionNotFound"
    /\ last.tx \in unconfirmed_txs
    /\ to_visit # {}
    /\ outcome = "none"

\* C7: a failure of the port other than "not found", in the receipt query or in the
\* chain head query, ends the call in that very step with the port's error: no map,
\* no ConfirmationTimedOut, and no query, round or sleep after it.
PortFailureIsFatal ==
    [][/\ (ReceiptQueryStep
             /\ (last'.kind = "error" \/ last'.head = HeadError)) =>
               /\ outcome' = "PortUnavailable"
               /\ pc' = "done"
               /\ result' = <<>>
               /\ mode = "broadcast" => bc_outcome' = "PortUnavailable" /\ bc_result' = <<>>
       /\ outcome = "PortUnavailable" =>
               UNCHANGED <<outcome, result, queried, seen, rounds, sleeps>>]_vars

\* C7 witness: the port failed on the first of two hashes of a round
PortFailureWitness ==
    /\ outcome = "PortUnavailable"
    /\ ReceiptQueried
    /\ Cardinality(to_visit) = 2
    /\ pc = "done"

\* C8: the deadline test is reached only from a sleep, and a sleep only with hashes
\* left; a round that leaves no hash makes the call return the map, wherever the
\* clock stands.
NoSpuriousTimeout ==
    [][/\ (pc' = "timeout_check" /\ pc # "timeout_check") =>
               (pc = "sleep" /\ sleeps' = sleeps + 1)
       /\ pc' \in {"sleep", "timeout_check", "diag"} => unconfirmed_txs' # {}
       /\ outcome' = "ConfirmationTimedOut" => timed_out' # {}
       /\ (pc = "for" /\ pc' # "for" /\ outcome' = "none" /\ unconfirmed_txs' = {}) =>
               pc' = "while"
       /\ (pc = "while" /\ pc' # "while" /\ unconfirmed_txs = {}) =>
               (outcome' = "returned" /\ result' = receipts_received)]_vars

\* C8 witness: the call returned a map although the deadline had passed
NoSpuriousTimeoutWitness ==
    /\ outcome = "returned"
    /\ now > started_at + max_timeout
    /\ sleeps >= 1
    /\ Keys(result) # {}

\* C9: the signed transactions are submitted in input order; when a submission
\* fails the call ends with the port's error, nothing after it is submitted and no
\* receipt is ever queried.
BroadcastInOrderAndAborts ==
    /\ Len(submitted) <= Len(signed)
    /\ submitted = SubSeq(signed, 1, Len(submitted))
    /\ (last.op = "send_raw_transaction" /\ last.kind = "error") =>
           bc_outcome = "SubmissionFailed"
    /\ bc_outcome = "SubmissionFailed" =>
           /\ pc = "done"
           /\ Len(hashes) = Len(submitted) - 1
           /\ queried = {}
           /\ rounds = 0
           /\ outcome = "none"
           /\ bc_result = <<>>

\* C9 witness: the first of two submissions failed
BroadcastAbortWitness ==
    /\ bc_outcome = "SubmissionFailed"
    /\ Len(signed) = 2
    /\ Len(submitted) = 1

\* C10: with confirm_ok, once the monitor has returned, the call returns the map
\* only if every receipt has status 1; otherwise it fails with the error naming a
\* transaction whose receipt failed, and returns no map.
ConfirmOkRejectsFailedReceipt ==
    (mode = "broadcast" /\ confirm_ok /\ pc = "done" /\ outcome = "returned") =>
        IF \E i \in DOMAIN result : result[i].receipt.status # 1
        THEN /\ bc_outcome = "TransactionFailed"
             /\ bc_result = <<>>
             /\ \E i \in DOMAIN result :
                    result[i].tx_hash = failed_tx /\ result[i].receipt.status # 1
        ELSE /\ bc_outcome = "returned"
             /\ bc_result = result

\* C10 witness: of two receipts one failed and one succeeded
ConfirmOkWitness ==
    /\ bc_outcome = "TransactionFailed"
    /\ Len(result) = 2
    /\ \E i \in DOMAIN result : result[i].receipt.status = 1

\* the step in which the port answers the chain id query of line 57
ChainIdAnswered == pc = "chain_id" /\ last' # last /\ last'.op = "chain_id" /\ last'.kind = "ok"

\* C11 as stated: the monitor does not look at the chain id, so whatever chain id
\* the port reports the call goes on to its polling; in particular a call with
\* confirmation_block_count > 0 is never rejected because of the chain it runs on.
ChainIdIgnored ==
    [][ChainIdAnswered => pc' = "while" /\ outcome' = "none"]_vars

\* C11 amended: the monitor reads the chain id once, before any receipt query, and
\* only to guard the depth policy: when the port reports chain id 61 (Ethereum
\* Tester) and confirmation_block_count is not 0 the call is rejected with an
\* AssertionError, with no round, no receipt query and no map; in every other case
\* (any other chain id, or 61 with a count of 0) the call starts polling from the
\* same state, the distinct input hashes to watch and an empty map, and the chain
\* id is never asked for again.
ChainIdOnlyGuardsTester ==
    [][/\ ChainIdAnswered =>
               IF chain_id = EthereumTesterChainId /\ confirmation_block_count # 0
               THEN /\ outcome' = "AssertionError"
                    /\ pc' = "done"
                    /\ result' = <<>>
                    /\ rounds' = 0
                    /\ queried' = {}
               ELSE /\ outcome' = "none"
                    /\ pc' = "while"
                    /\ unconfirmed_txs' = {txs[i] : i \in DOMAIN txs}
                    /\ receipts_received' = <<>>
       /\ (last' # last /\ last'.op = "chain_id") => pc = "chain_id"
       /\ outcome' = "AssertionError" =>
               ChainIdAnswered \/ outcome = "AssertionError"]_vars

\* C11 witness: a call on chain 61 asking for one confirmation was rejected before
\* any receipt query
ChainGuardWitness ==
    /\ outcome = "AssertionError"
    /\ chain_id = EthereumTesterChainId
    /\ confirmation_block_count > 0
    /\ txs # <<>>
    /\ queried = {}
    /\ rounds = 0

\* C12: duplicates in the input collapse. The watch set built from the input is the
\* set of its distinct hashes, so a hash given twice is watched once; within a round
\* a hash is handed to get_transaction_receipt only while it is still to visit and
\* is struck off by that very query, so it is queried at most once per round; and
\* the map holds one entry per hash, on return one entry per distinct input hash,
\* as for the same input without its duplicates.
DuplicatesCollapse ==
    [][/\ (ChainIdAnswered /\ pc' = "while") =>
               /\ unconfirmed_txs' = {txs[i] : i \in DOMAIN txs}
               /\ Cardinality(unconfirmed_txs') <= Len(txs)
       /\ ReceiptQueryStep =>
               /\ last'.tx \in to_visit
               /\ pc' = "for" => last'.tx \notin to_visit'
       /\ (pc = "for" /\ pc' = "for") => to_visit' \subseteq to_visit
       /\ Len(receipts_received') = Cardinality(Keys(receipts_received'))
       /\ outcome' = "returned" =>
               Len(result') = Cardinality({txs'[i] : i \in DOMAIN txs'})]_vars

\* C12 witness: the same hash was given twice and the call returned one entry for it
DuplicatesCollapseWitness ==
    /\ mode = "wait"
    /\ Len(txs) = 2
    /\ txs[1] = txs[2]
    /\ outcome = "returned"
    /\ Len(result) = 1
    /\ Keys(result) = {txs[1]}
    /\ queried = {txs[1]}
    /\ rounds = 2

\* wait_transactions_to_complete is running, or has run, on an empty list of hashes
EmptyInput == txs = <<>> /\ pc # "broadcast"

\* C13 as stated: with an empty input the monitor returns an empty map at once,
\* whatever max_timeout: no receipt query, no chain head query, no round, no sleep,
\* no timeout check, and no other way out of the call.
EmptyInputReturnsEmptyMap ==
    (EmptyInput /\ pc \notin {"chain_id", "while"}) =>
        /\ outcome = "returned"
        /\ result = <<>>
        /\ queried = {}
        /\ rounds = 0
        /\ sleeps = 0

\* C13 amended: with an empty input, once the chain guard of lines 57-58 has passed
\* (the port answered the chain id, and it is not 61 with a count above 0), the
\* monitor returns an empty map in its very next step whatever max_timeout: no
\* receipt query, no chain head query, no round, no sleep, no timeout check. The
\* only other ways out of the call are the two of the guard: the port failing on
\* the chain id query, and the AssertionError of chain 61 with a count above 0.
EmptyInputPastGuardReturnsEmptyMap ==
    [][EmptyInput' =>
           /\ queried' = {} /\ seen' = {} /\ rounds' = 0 /\ sleeps' = 0
           /\ pc' \notin {"for", "sleep", "timeout_check", "diag"}
           /\ last'.op \notin {"get_transaction_receipt", "get_transaction"}
           /\ pc = "while" => outcome' = "returned" /\ result' = <<>>
           /\ pc' = "while" => ChainIdAnswered
           /\ outcome' \in {"none", "returned", "AssertionError", "PortUnavailable"}
           /\ (outcome' = "AssertionError" /\ outcome = "none") =>
                  ChainIdAnswered /\ chain_id = EthereumTesterChainId
                                  /\ confirmation_block_count > 0
           /\ (outcome' = "PortUnavailable" /\ outcome = "none") =>
                  pc = "chain_id" /\ last'.op = "chain_id" /\ last'.kind = "error"
           /\ outcome' = "returned" =>
                  result' = <<>> /\ now' = 0 /\ timed_out' = {}]_vars

\* C13 witness: an empty list with a timeout of 0 came back as an empty map
EmptyInputWitness ==
    /\ mode = "wait"
    /\ txs = <<>>
    /\ max_timeout = 0
    /\ confirmation_block_count > 0
    /\ pc = "done"
    /\ outcome = "returned"
    /\ result = <<>>
    /\ rounds = 0
    /\ sleeps = 0

\* C14: with confirm_ok not set, broadcast_and_wait_transactions_to_complete returns
\* exactly the map wait_transactions_to_complete returned, unchanged, receipts with a
\* failed status included, and it never fails with the status check's error.
NoConfirmOkReturnsMapUnchanged ==
    ~confirm_ok =>
        /\ bc_outcome # "TransactionFailed"
        /\ failed_tx = NoTx
        /\ (mode = "broadcast" /\ pc = "done" /\ outcome = "returned") =>
               /\ bc_outcome = "returned"
               /\ bc_result = result
               /\ bc_result = receipts_received

\* C14 witness: without confirm_ok the wrapper returned a map holding a failed receipt
NoConfirmOkWitness ==
    /\ mode = "broadcast"
    /\ ~confirm_ok
    /\ bc_outcome = "returned"
    /\ bc_result = result
    /\ Len(bc_result) = 2
    /\ FailedEntries(bc_result) # {}

\* the hashes that are both a key of receipts_received and still in unconfirmed_txs
WatchedAndReceived == Keys(receipts_received) \cap unconfirmed_txs

\* C15 as stated: in every reachable state, the states inside a round between the
\* handling of two hashes included, the map holds no hash that is still in the
\* watch set.
MapDisjointFromWatchSet == WatchedAndReceived = {}

\* C15 amended: outside the for loop of a round (before the first round, between
\* rounds, and once the call has returned or timed out) the map holds no hash that
\* is still in the watch set. Inside a round, and after a port failure has ended
\* the call in the middle of one, the hashes in both are exactly those promoted in
\* this round: their receipts are already stored, and they leave the watch set
\* only when the loop over the round's hashes is over.
MapDisjointFromWatchSetBetweenRounds ==
    WatchedAndReceived =
        IF pc = "for" \/ outcome = "PortUnavailable" THEN confirmation_received ELSE {}

\* C15 witness: inside a round, one hash is promoted, its receipt stored, and it is
\* still in the watch set while the other hash waits for its query
MapOverlapsInsideRoundWitness ==
    /\ pc = "for"
    /\ to_visit # {}
    /\ confirmation_received # {}
    /\ confirmation_received \subseteq unconfirmed_txs
    /\ confirmation_received \subseteq Keys(receipts_received)

\* C16: promotion is final. Once a hash is a key of receipts_received the port is
\* never asked for its receipt again, in the round that promoted it or in any
\* later one, and its entry is never replaced or dropped: the map only grows at
\* its end, by the hash and receipt of the query of that step.
PromotionIsFinal ==
    [][/\ ReceiptQueryStep => last'.tx \notin Keys(receipts_received)
       /\ Len(receipts_received') >= Len(receipts_received)
       /\ SubSeq(receipts_received', 1, Len(receipts_received)) = receipts_received
       /\ Len(receipts_received') <= Len(receipts_received) + 1]_vars

\* C16 witness: in the second round the port is asked about the hash still watched,
\* while the hash promoted in the first round keeps its entry and is not visited
PromotionIsFinalWitness ==
    /\ rounds = 2
    /\ ReceiptQueried
    /\ Len(receipts_received) = 1
    /\ Keys(receipts_received) \cap unconfirmed_txs = {}
    /\ last.tx \in unconfirmed_txs
    /\ to_visit = {}
    /\ pc = "for"

\* the call has passed line 66: the watch set and the map exist
MonitorStarted ==
    \/ pc \in {"while", "for", "sleep", "timeout_check", "diag", "confirm_ok"}
    \/ outcome \in {"returned", "ConfirmationTimedOut", "DiagnosticError"}
    \/ outcome = "PortUnavailable" /\ rounds >= 1

\* the call is between two rounds, or over without a round cut short
AtRoundBoundary == MonitorStarted /\ pc # "for" /\ outcome # "PortUnavailable"

\* C17: at every round boundary the watch set and the keys of the map partition
\* the distinct input hashes. From one boundary to the next the watch set only
\* loses hashes and the map only gains them, and they are the same hashes, those
\* promoted in the round. The watch set is empty exactly when the call returns its
\* map: it is empty on return, an empty watch set at a boundary is returned from
\* in the next step, and a call that times out leaves hashes in it.
RoundBoundaryPartition ==
    [][/\ AtRoundBoundary' =>
               /\ unconfirmed_txs' \cup Keys(receipts_received') = {txs'[i] : i \in DOMAIN txs'}
               /\ unconfirmed_txs' \cap Keys(receipts_received') = {}
               /\ outcome' = "returned" => unconfirmed_txs' = {}
               /\ (unconfirmed_txs' = {} /\ outcome' # "returned") => pc' = "while"
               /\ outcome' \in {"ConfirmationTimedOut", "DiagnosticError"} =>
                      unconfirmed_txs' # {}
       /\ (pc = "while" /\ unconfirmed_txs = {}) => outcome' = "returned"
       /\ MonitorStarted =>
               /\ unconfirmed_txs' \subseteq unconfirmed_txs
               /\ Keys(receipts_received) \subseteq Keys(receipts_received')
       /\ (pc = "for" /\ AtRoundBoundary') =>
               /\ unconfirmed_txs \ unconfirmed_txs' = confirmation_received
               /\ Keys(receipts_received') \cap unconfirmed_txs = confirmation_received]_vars

\* C17 witness: after the first round of a call on two hashes, one is in the map
\* and the other still in the watch set
RoundBoundaryPartitionWitness ==
    /\ pc = "sleep"
    /\ rounds = 1
    /\ Cardinality(unconfirmed_txs) = 1
    /\ Len(receipts_received) = 1
    /\ unconfirmed_txs \cup Keys(receipts_received) = TxHashes
    /\ unconfirmed_txs \cap Keys(receipts_received) = {}

\* C18: the number of rounds and sleeps. A round starts only with hashes still
\* watched and after as many sleeps as rounds so far; a sleep follows only a round
\* that left hashes watched. The round that empties the watch set is followed by
\* no sleep and no further round: the call returns in the next step, so when round
\* k is the first after which every hash has satisfied the policy, and no timeout
\* fires before, the call returns after exactly k rounds and k - 1 sleeps; all
\* satisfied in round 1 returns without sleeping.
RoundCount ==
    [][/\ rounds' # rounds =>
               /\ rounds' = rounds + 1
               /\ unconfirmed_txs # {}
               /\ sleeps = rounds
       /\ sleeps' # sleeps =>
               /\ sleeps' = sleeps + 1
               /\ sleeps' = rounds
               /\ unconfirmed_txs # {}
       /\ (pc = "for" /\ pc' # "for" /\ outcome' = "none") =>
               pc' = IF unconfirmed_txs' = {} THEN "while" ELSE "sleep"
       /\ (pc = "while" /\ unconfirmed_txs = {}) =>
               /\ outcome' = "returned"
               /\ rounds' = rounds /\ sleeps' = sleeps
       /\ (outcome' = "returned" /\ rounds' >= 1) => sleeps' = rounds' - 1
       /\ (outcome' = "returned" /\ rounds' = 0) => sleeps' = 0 /\ txs' = <<>>]_vars

\* C18 witness: a call on one hash that did not satisfy the policy in three rounds
\* and did in the fourth returned after four rounds and three sleeps
RoundCountWitness ==
    /\ Len(txs) = 1
    /\ outcome = "returned"
    /\ Keys(result) = {txs[1]}
    /\ rounds = 4
    /\ sleeps = 3

\* C19: with max_timeout = 0, a call whose first round leaves a hash in the watch
\* set fails with ConfirmationTimedOut after that round and its single sleep, and
\* never starts a second round.
ZeroTimeoutTimesOutAfterFirstRound ==
    (max_timeout = 0 /\ sleeps >= 1) =>
        /\ rounds = 1
        /\ sleeps = 1
        /\ pc = "done" =>
               /\ outcome = "ConfirmationTimedOut"
               /\ timed_out = unconfirmed_txs
               /\ timed_out # {}

\* C20: no partial sighting is kept. A hash whose receipt is seen but has fewer
\* confirmations than asked stays in the watch set, and nothing of that receipt is
\* stored. When the port later has no receipt for a hash it answered one for
\* before, the hash is handled as one never seen: it is not promoted from the
\* earlier receipt, the map is left as it was, and the call goes on without an
\* error. A promotion stores the receipt the port returned in the promoting step.
NoPartialSightingKept ==
    [][/\ (ReceiptQueryStep /\ last'.kind = "receipt" /\ last'.head \in Heads
             /\ last'.head - last'.receipt.blockNumber < confirmation_block_count) =>
               /\ receipts_received' = receipts_received
               /\ confirmation_received' = confirmation_received
               /\ last'.tx \in unconfirmed_txs'
               /\ last'.tx \notin Keys(receipts_received')
               /\ outcome' = "none"
       /\ (ReceiptQueryStep /\ last'.kind \in {"None", "TransactionNotFound"}
             /\ last'.tx \in seen) =>
               /\ receipts_received' = receipts_received
               /\ confirmation_received' = confirmation_received
               /\ last'.tx \in unconfirmed_txs'
               /\ last'.tx \notin Keys(receipts_received')
               /\ outcome' = "none"
               /\ pc' = "for"
       /\ confirmation_received' \ confirmation_received # {} =>
               /\ ReceiptQueryStep
               /\ last'.kind = "receipt"
               /\ confirmation_received' = confirmation_received \cup {last'.tx}
               /\ Lookup(receipts_received', last'.tx) = last'.receipt]_vars

\* C20 witness: in the second round the port has no receipt for a hash it answered
\* a receipt for in the first, and the hash is still watched with nothing stored
NoPartialSightingWitness ==
    /\ rounds = 2
    /\ ReceiptQueried
    /\ last.kind \in {"None", "TransactionNotFound"}
    /\ last.tx \in seen
    /\ last.tx \in unconfirmed_txs
    /\ last.tx \notin confirmation_received
    /\ receipts_received = <<>>
    /\ outcome = "none"

\* C21: no partial results. The caller gets entries of the map only from a call
\* that returned, and a call returns only with an empty watch set and the whole
\* map; a call that fails hands over nothing, so when it fails with
\* ConfirmationTimedOut the receipts promoted in earlier rounds stay in the
\* call's own receipts_received and do not reach the caller, of the monitor or of
\* the wrapper.
NoPartialResults ==
    /\ outcome = "returned" =>
           /\ unconfirmed_txs = {}
           /\ result = receipts_received
           /\ Keys(result) = {txs[i] : i \in DOMAIN txs}
    /\ outcome # "returned" => result = <<>> /\ bc_result = <<>>
    /\ bc_result # <<>> => bc_outcome = "returned" /\ bc_result = result
    /\ outcome = "ConfirmationTimedOut" =>
           /\ result = <<>>
           /\ bc_result = <<>>
           /\ timed_out = unconfirmed_txs
           /\ timed_out \cap Keys(receipts_received) = {}

\* C21 witness: a call timed out on one hash after the other had been promoted in
\* an earlier round, and the caller got no entry
NoPartialResultsWitness ==
    /\ outcome = "ConfirmationTimedOut"
    /\ rounds = 2
    /\ Len(receipts_received) = 1
    /\ Cardinality(timed_out) = 1
    /\ result = <<>>
    /\ bc_result = <<>>

\* C22 as stated, the ways a call ends: a call that has ended has returned its
\* map, or failed with ConfirmationTimedOut, or failed with an error of the port.
EndsOnlyAsListed ==
    pc = "done" =>
        outcome \in {"returned", "ConfirmationTimedOut", "PortUnavailable", "DiagnosticError"}

\* C22 amended: as long as every port call returns and every sleep lets the clock
\* advance, every call of the monitor ends, even when a hash never gets a deep
\* enough receipt: it runs at most max_timeout / poll_delay + 1 rounds and as many
\* sleeps, and it ends by returning its map, by failing with ConfirmationTimedOut
\* or with an error of the port, or by the AssertionError of the chain guard of
\* lines 57-58.
MonitorTerminates ==
    /\ [](rounds <= max_timeout + 1 /\ sleeps <= max_timeout + 1)
    /\ <>(/\ pc = "done"
          /\ outcome \in {"returned", "ConfirmationTimedOut", "PortUnavailable",
                           "DiagnosticError", "AssertionError"})

\* C22 witness: the port answered a receipt that never got deep enough, and the
\* call ended with ConfirmationTimedOut after max_timeout + 1 rounds
MonitorTerminatesWitness ==
    /\ pc = "done"
    /\ outcome = "ConfirmationTimedOut"
    /\ max_timeout = MaxTimeout
    /\ rounds = max_timeout + 1
    /\ sleeps = rounds
    /\ seen # {}
    /\ receipts_received = <<>>

\* the monitor called by the wrapper has left its loop through the deadline check
MonitorGaveUp ==
    /\ mode = "broadcast"
    /\ pc = "done"
    /\ outcome \notin {"none", "returned", "PortUnavailable", "AssertionError"}

\* C23: in the wrapper with confirm_ok set the status check comes last. A status
\* is looked at only once the monitor has returned, with every submitted hash
\* promoted; a receipt with a failed status does not end the wait; and when one
\* transaction has a failed receipt while another never confirms, the call fails
\* with ConfirmationTimedOut and not with the error of the status check.
StatusCheckComesLast ==
    (mode = "broadcast" /\ confirm_ok) =>
        /\ bc_outcome = "TransactionFailed" =>
               /\ outcome = "returned"
               /\ unconfirmed_txs = {}
               /\ Keys(result) = {hashes[i] : i \in DOMAIN hashes}
        /\ pc = "confirm_ok" => outcome = "returned" /\ unconfirmed_txs = {}
        /\ outcome # "returned" => failed_tx = NoTx
        /\ (MonitorGaveUp /\ FailedEntries(receipts_received) # {}) =>
               /\ bc_outcome = "ConfirmationTimedOut"
               /\ timed_out = unconfirmed_txs

====
